---- MODULE Spec2Model ----
(***************************************************************************)
(* mkdocs-protobuf: the cross-file import resolver (import_resolver.py),   *)
(* the batch converter (converter.py) and the plugin's build and watcher   *)
(* handlers (plugin.py) over an abstract file system.                      *)
(*                                                                         *)
(* Paths are absolute and normalised.  A file path is a record             *)
(* [dir, stem, ext]: dir is the sequence of directory names from the file  *)
(* system root, stem and ext the two halves os.path.splitext gives for the *)
(* file name.  A directory is the sequence of its names.  A dotted name    *)
(* (package, qualified type) is the sequence of its dot-separated parts.   *)
(***************************************************************************)
EXTENDS Integers, Sequences, FiniteSets, TLC

VARIABLES
    proto_dirs,       \* converter.proto_dirs / resolver.proto_dirs: configured roots, in order
    proto_paths,      \* plugin config "proto_paths": [dirs, files]
    fs,               \* source file system: file -> "absent" | "locked" | content id
    out,              \* output directory: output path -> page record
    import_resolver,  \* ProtoImportResolver fields: import_map, package_map, cross_references, initialized
    file_hashes,      \* ProtoFileCache.file_hashes: file -> stored hash
    cache_file,       \* the JSON file at ProtoFileCache.cache_file
    recorded,         \* file -> the content it had when its hash was last stored
    nav,              \* config["nav"]: the list of top-level navigation entries
    seen,             \* the source file system as the most recent build found it
    last,             \* the most recent convert_proto_files call: its argument, outcomes and result
    res,              \* the most recent resolver query and its return value
    doc,              \* the most recent ProtoExtractor call: the text it was given and its result
    threads,          \* thread -> its position in a convert_proto_files call it is running
    ops               \* number of operations performed so far

vars == <<proto_dirs, proto_paths, fs, out, import_resolver, file_hashes, cache_file, recorded,
          nav, seen, last, res, doc, threads, ops>>

----------------------------------------------------------------------------
(* Bounds *)

\* longest file list handed to initialize / convert_proto_files by a direct caller
MaxBatch == 2
\* number of builds, watcher events and file system changes in one behaviour
MaxOps == 2
\* number of direct calls of the resolver or the navigation update in one behaviour
MaxCalls == 2
\* number of direct calls of the converter and file system changes in one
\* behaviour; every file system state is an initial state
MaxConverterCalls == 1
\* number of builds and file system changes in one behaviour of repeated builds
MaxRuns == 3
\* number of builds, delete events and file system changes in one behaviour
MaxDeleteOps == 3
\* number of direct calls of the cache and file system changes in one behaviour
MaxCacheOps == 3
\* longest list of top-level message declarations in a rendered source text
MaxDecl == 2
\* number of lines of a message or service body given to the extractor
MaxLines == 3
\* longest list of configured roots given to the owning-root search
MaxRoots == 3
\* longest list of output paths a navigation tree is built from
MaxPaths == 3
\* number of builds, create and delete events and file system changes in one
\* behaviour in which every conversion succeeds
MaxRecreateOps == 5

----------------------------------------------------------------------------
(* The universe: directories, source files, contents *)

DirP == <<"p">>
DirPX == <<"p", "x">>
DirQ == <<"q">>
OutDir == <<"docs", "gen">>
NoDir == <<>>

File(d, s) == [dir |-> d, stem |-> s, ext |-> "proto"]
NoFile == [dir |-> <<>>, stem |-> "", ext |-> ""]

FilePA == File(DirP, "a")
FilePXB == File(DirPX, "b")
FileQA == File(DirQ, "a")
Files == {FilePA, FilePXB, FileQA}

\* the declarations of a source text in the order they are written: the
\* top-level messages, the messages nested in the first of them, the enums,
\* the values of each enum, the services
Decl(msgs, nested, enums, values, services) ==
    [msgs |-> msgs, nested |-> nested, enums |-> enums, values |-> values, services |-> services]

\* what a source text declares and references
NoContent == [pkg |-> <<>>, msgs |-> {}, nested |-> {}, enums |-> {}, services |-> {}, refs |-> {},
              decl |-> Decl(<<>>, <<>>, <<>>, <<>>, <<>>)]
ContentA == [pkg |-> <<"a">>, msgs |-> {"T"}, nested |-> {"N"}, enums |-> {}, services |-> {"S"},
             refs |-> {<<"a", "b", "U">>, <<"a", "b", "X">>},
             decl |-> Decl(<<"T">>, <<"N">>, <<>>, <<>>, <<"S">>)]
ContentAB == [pkg |-> <<"a", "b">>, msgs |-> {"U"}, nested |-> {}, enums |-> {"E"}, services |-> {},
              refs |-> {<<"a", "T">>, <<"a", "N">>, <<"T">>},
              decl |-> Decl(<<"U">>, <<>>, <<"E">>, <<"V1", "V0">>, <<>>)]
ContentNone == [pkg |-> <<>>, msgs |-> {"T"}, nested |-> {}, enums |-> {}, services |-> {},
                refs |-> {<<"a", "b", "U">>},
                decl |-> Decl(<<"T">>, <<>>, <<>>, <<>>, <<>>)]

ContentIds == {"cA", "cAB", "cNone"}
ContentOf(id) ==
    CASE id = "cA" -> ContentA
      [] id = "cAB" -> ContentAB
      [] id = "cNone" -> ContentNone
      [] OTHER -> NoContent

FileStates == {"absent", "locked"} \cup ContentIds

\* the states each file takes in the model
Allowed(f) ==
    CASE f = FilePA -> {"absent", "cA", "cNone"}
      [] f = FilePXB -> {"absent", "locked", "cAB"}
      [] OTHER -> {"absent", "cA", "cAB"}

Names == {"T", "N", "U", "E", "S", "X"}
Packages == {<<"a">>, <<"a", "b">>}
TypeRefs == {<<"T">>, <<"a", "T">>, <<"a", "N">>, <<"a", "b", "U">>, <<"a", "b", "X">>, <<"b", "U">>}

RootConfigs == {<<DirP>>, <<DirP, DirPX>>, <<DirPX, DirP>>, <<DirP, DirQ>>}

Exists(f) == f \in Files /\ fs[f] # "absent"
Readable(f) == f \in Files /\ fs[f] \in ContentIds

EmptyMap == [k \in {} |-> k]
Put(m, k, v) == (k :> v) @@ m
Range(s) == {s[i] : i \in DOMAIN s}

\* duplicate-free lists over S of length at most n
RECURSIVE ListsUpTo(_, _)
ListsUpTo(S, n) ==
    IF n = 0 THEN {<<>>}
    ELSE LET shorter == ListsUpTo(S, n - 1)
             longest == {m \in shorter : Len(m) = n - 1}
         IN shorter \cup UNION {{Append(l, x) : x \in S \ Range(l)} : l \in longest}

\* the file lists a batch call is given
FileLists == ListsUpTo(Files, MaxBatch)

----------------------------------------------------------------------------
(* os.path helpers *)

\* os.path.commonpath([d, f]) == d for a directory d and a file f
Contains(d, f) == Len(d) <= Len(f.dir) /\ SubSeq(f.dir, 1, Len(d)) = d

\* len() of a path string; the roots compared all contain the same file, so
\* they are prefixes of one path and their string lengths are ordered as
\* their numbers of components
PathLen(d) == Len(d)

relpath(f, d) == [dir |-> SubSeq(f.dir, Len(d) + 1, Len(f.dir)), stem |-> f.stem, ext |-> f.ext]
basename(f) == [dir |-> <<>>, stem |-> f.stem, ext |-> f.ext]
\* os.path.join(output_dir, os.path.splitext(rel)[0] + ".md")
joinmd(output_dir, rel) == [dir |-> output_dir \o rel.dir, stem |-> rel.stem, ext |-> "md"]

----------------------------------------------------------------------------
(* ProtoImportResolver *)

NewResolver == [import_map |-> EmptyMap, package_map |-> EmptyMap,
                cross_references |-> EmptyMap, initialized |-> FALSE]

RECURSIVE BestDirLoop(_, _, _, _)
BestDirLoop(dirs, i, f, best) ==
    IF i > Len(dirs) THEN best
    ELSE BestDirLoop(dirs, i + 1, f,
                     IF Contains(dirs[i], f) /\ PathLen(dirs[i]) > PathLen(best)
                     THEN dirs[i] ELSE best)

\* the first configured root that contains the file, whatever its length
find_best_proto_dir_first(f) ==
    LET I == {i \in 1..Len(proto_dirs) : Contains(proto_dirs[i], f)}
    IN IF I = {} THEN NoDir ELSE proto_dirs[CHOOSE i \in I : \A j \in I : i <= j]

find_best_proto_dir(f) == BestDirLoop(proto_dirs, 1, f, NoDir)

\* the names the three finditer passes register for one file's content
DefinedNames(c) == c.msgs \cup c.nested \cup c.enums \cup c.services

extract_definitions(R, c, f) ==
    LET keys == {Append(c.pkg, n) : n \in DefinedNames(c)}
    IN [R EXCEPT !.cross_references =
            [k \in keys \cup DOMAIN @ |-> IF k \in keys THEN f ELSE @[k]]]

ImportKey(f) ==
    LET best == find_best_proto_dir(f)
    IN IF best # NoDir THEN relpath(f, best) ELSE basename(f)

\* a process_proto_file that keeps the file a package is already mapped to
process_proto_file_first(R, f) ==
    LET R1 == [R EXCEPT !.import_map = Put(@, ImportKey(f), f)]
    IN IF ~Readable(f) THEN R1
       ELSE LET c == ContentOf(fs[f])
            IN IF c.pkg = <<>> THEN R1
               ELSE extract_definitions(
                        [R1 EXCEPT !.package_map =
                             IF c.pkg \in DOMAIN @ THEN @ ELSE Put(@, c.pkg, f)], c, f)

process_proto_file(R, f) ==
    LET R1 == [R EXCEPT !.import_map = Put(@, ImportKey(f), f)]
    IN IF ~Readable(f) THEN R1
       ELSE LET c == ContentOf(fs[f])
            IN IF c.pkg = <<>> THEN R1
               ELSE extract_definitions([R1 EXCEPT !.package_map = Put(@, c.pkg, f)], c, f)

\* an initialize that keeps the entries the maps already hold
RECURSIVE InitLoopKeep(_, _, _)
InitLoopKeep(R, files, i) ==
    IF i > Len(files) THEN R
    ELSE InitLoopKeep(process_proto_file(R, files[i]), files, i + 1)

initialize_keep(R, files) == [InitLoopKeep(R, files, 1) EXCEPT !.initialized = TRUE]

RECURSIVE InitLoop(_, _, _)
InitLoop(R, files, i) ==
    IF i > Len(files) THEN R
    ELSE InitLoop(process_proto_file(R, files[i]), files, i + 1)

initialize(R, files) ==
    [InitLoop([R EXCEPT !.import_map = EmptyMap, !.package_map = EmptyMap,
                        !.cross_references = EmptyMap], files, 1)
        EXCEPT !.initialized = TRUE]

\* os.path.exists(os.path.normpath(os.path.join(d, import_path)))
JoinExists(d, ip) == Exists([dir |-> d \o ip.dir, stem |-> ip.stem, ext |-> ip.ext])
Joined(d, ip) == [dir |-> d \o ip.dir, stem |-> ip.stem, ext |-> ip.ext]

RECURSIVE TryDirs(_, _, _)
TryDirs(dirs, i, ip) ==
    IF i > Len(dirs) THEN NoFile
    ELSE IF JoinExists(dirs[i], ip) THEN Joined(dirs[i], ip)
    ELSE TryDirs(dirs, i + 1, ip)

\* a resolve_import without the initialized guard
resolve_import_unguarded(R, ip, importing_file) ==
    IF ip \in DOMAIN R.import_map THEN R.import_map[ip]
    ELSE IF importing_file # NoFile /\ JoinExists(importing_file.dir, ip)
         THEN Joined(importing_file.dir, ip)
    ELSE TryDirs(proto_dirs, 1, ip)

\* a resolve_import that only looks on disk, never in the import map
resolve_import_disk(R, ip, importing_file) ==
    IF ~R.initialized THEN NoFile
    ELSE IF importing_file # NoFile /\ JoinExists(importing_file.dir, ip)
         THEN Joined(importing_file.dir, ip)
    ELSE TryDirs(proto_dirs, 1, ip)

resolve_import(R, ip, importing_file) ==
    IF ~R.initialized THEN NoFile
    ELSE IF ip \in DOMAIN R.import_map THEN R.import_map[ip]
    ELSE IF importing_file # NoFile /\ JoinExists(importing_file.dir, ip)
         THEN Joined(importing_file.dir, ip)
    ELSE TryDirs(proto_dirs, 1, ip)

RECURSIVE PackageLoop(_, _, _)
PackageLoop(R, parts, i) ==
    IF i >= Len(parts) THEN NoFile
    ELSE IF SubSeq(parts, 1, i) \in DOMAIN R.package_map
         THEN R.package_map[SubSeq(parts, 1, i)]
    ELSE PackageLoop(R, parts, i + 1)

resolve_type_reference(R, t) ==
    IF ~R.initialized THEN NoFile
    ELSE IF Len(t) > 1
         THEN IF t \in DOMAIN R.cross_references THEN R.cross_references[t]
              ELSE PackageLoop(R, t, 1)
    ELSE NoFile

\* os.path.dirname of a file path
dirname(f) == f.dir

\* the number of leading components two directories share
CommonLen(a, b) ==
    CHOOSE k \in 0..Len(a) :
        /\ k <= Len(b)
        /\ SubSeq(a, 1, k) = SubSeq(b, 1, k)
        /\ (k < Len(a) /\ k < Len(b)) => a[k + 1] # b[k + 1]

\* os.path.relpath(p, start) of a file path p: ups ".." steps out of start,
\* then the directories dir down to the file
NoRel == [ups |-> 0, dir |-> <<>>, stem |-> "", ext |-> ""]
relpath_from(p, start) ==
    LET k == CommonLen(p.dir, start)
    IN [ups |-> Len(start) - k, dir |-> SubSeq(p.dir, k + 1, Len(p.dir)),
        stem |-> p.stem, ext |-> p.ext]

\* the returned markdown: a literal `type_ref`, or a link [`type_name`](rel_link);
\* file and target name the resolved source file and its md_path
Literal(t) == [linked |-> FALSE, text |-> t, file |-> NoFile, target |-> NoFile, rel |-> NoRel]

get_markdown_link(R, t, current_file_path, output_dir) ==
    IF ~R.initialized \/ t = <<>> \/ Len(t) <= 1 THEN Literal(t)
    ELSE LET target_file == resolve_type_reference(R, t)
         IN IF target_file = NoFile THEN Literal(t)
            ELSE LET best == find_best_proto_dir(target_file)
                     md_path == joinmd(output_dir, relpath(target_file, best))
                 IN IF best # NoDir
                    THEN [linked |-> TRUE, text |-> <<t[Len(t)]>>, file |-> target_file,
                          target |-> md_path,
                          rel |-> relpath_from(md_path, dirname(current_file_path))]
                    ELSE Literal(t)

----------------------------------------------------------------------------
(* ProtoToMarkdownConverter *)

\* what can happen to one file of a batch after its source was read:
\* "fail": the render, makedirs or open raises; "write_fail": the write
\* raises after open truncated the file; "ok": everything succeeds.
\* A batch suffers at most one such fault, at position fault.at.
NoFault == [at |-> 0, kind |-> "ok"]
Faults(n) == {NoFault} \cup {[at |-> i, kind |-> k] : i \in 1..n, k \in {"fail", "write_fail"}}
OutcomeAt(fault, i) == IF fault.at = i THEN fault.kind ELSE "ok"

Partial == [st |-> "partial", src |-> NoFile, cid |-> "", links |-> {}]

RECURSIVE ConvBestDirLoop(_, _, _, _)
ConvBestDirLoop(dirs, i, f, best) ==
    IF i > Len(dirs) THEN best
    ELSE ConvBestDirLoop(dirs, i + 1, f,
                         IF Contains(dirs[i], f) /\ PathLen(dirs[i]) > PathLen(best)
                         THEN dirs[i] ELSE best)

\* _find_best_proto_dir: None, like the resolver's "", is NoDir
converter_find_best_proto_dir(f) == ConvBestDirLoop(proto_dirs, 1, f, NoDir)

\* an output path that drops the directories below the root
output_file_flat(f, output_dir) == joinmd(output_dir, basename(f))

\* the output file path convert_proto_file computes
output_file(f, output_dir) ==
    LET best == ConvBestDirLoop(proto_dirs, 1, f, NoDir)
    IN IF best # NoDir THEN joinmd(output_dir, relpath(f, best))
       ELSE joinmd(output_dir, basename(f))

\* the field types the renderer is given: a modifier ("" for none) and a type
Modifiers == {"repeated", "optional", "required"}
FieldCores == {<<"T">>, <<"string">>, <<"a", "T">>, <<"a", "b", "U">>, <<"a", "optional_T">>,
               <<"z", "T">>}
primitive_types == {<<"double">>, <<"float">>, <<"int32">>, <<"int64">>, <<"uint32">>,
                    <<"uint64">>, <<"sint32">>, <<"sint64">>, <<"fixed32">>, <<"fixed64">>,
                    <<"sfixed32">>, <<"sfixed64">>, <<"bool">>, <<"string">>, <<"bytes">>}

\* the modifier words that occur as substrings of an identifier
WordsIn(name) == IF name = "optional_T" THEN {"optional"} ELSE {}
\* word in field_type, for the string "modifier type" (or "type")
InFieldType(word, mod, t) == mod = word \/ \E i \in DOMAIN t : word \in WordsIn(t[i])

\* field_type.replace(word + " ", ""): the string loses its modifier when the
\* modifier is that word, and is unchanged otherwise
StripWord(word, mod) == IF mod = word THEN "" ELSE mod

\* core_type: the modifier that is still in front of the type after the if / elif chain
core_modifier(mod, t) ==
    IF InFieldType("repeated", mod, t) THEN StripWord("repeated", mod)
    ELSE IF InFieldType("optional", mod, t) THEN StripWord("optional", mod)
    ELSE IF InFieldType("required", mod, t) THEN StripWord("required", mod)
    ELSE mod

\* the Type cell of a field row: the modifier in front, then a link, text in
\* backticks (code) or bare text
Cell(mod, linked, code, text, rel) ==
    [mod |-> mod, linked |-> linked, code |-> code, text |-> text, rel |-> rel]
NoCell == Cell("", FALSE, FALSE, <<>>, NoRel)

\* the field-type branch of _format_message_markdown
format_field_type(R, mod, t, output_file_path, output_dir) ==
    IF ~R.initialized THEN Cell(mod, FALSE, TRUE, t, NoRel)
    ELSE LET cm == core_modifier(mod, t)
         IN IF cm = "" /\ t \in primitive_types THEN Cell(mod, FALSE, TRUE, t, NoRel)
            ELSE IF Len(t) <= 1 THEN Cell(mod, FALSE, TRUE, t, NoRel)
            ELSE IF cm # "" THEN Cell(mod, FALSE, FALSE, t, NoRel)
            ELSE LET link == get_markdown_link(R, t, output_file_path, output_dir)
                 IN Cell(mod, link.linked, FALSE, link.text, link.rel)

\* the Request (or Response) cell _create_method_table renders for one method,
\* its parameters in the order of its signature
create_method_table(R, request, current_proto_file, current_output_file, output_dir) ==
    IF current_proto_file # NoFile /\ current_output_file # NoFile /\ R.initialized
    THEN get_markdown_link(R, request, current_output_file, output_dir)
    ELSE Literal(request)

\* the call that ends _proto_to_markdown for a service of the source file
\* current_proto_file: the arguments in the order the call writes them
method_table(R, request, current_proto_file, output_dir) ==
    LET current_output_file == output_file(current_proto_file, output_dir)
    IN create_method_table(R, request, current_output_file, current_proto_file, output_dir)

\* the names of the rendered source texts, in the order of Python's string comparison
Alphabet == <<"A", "B", "C", "E", "E1", "E2", "N", "N1", "N2", "S", "S1", "S2", "T", "U",
              "a", "b", "gen", "x">>
Ord(n) == CHOOSE i \in DOMAIN Alphabet : Alphabet[i] = n

\* sorted(d.items()) of a dict with the keys S, as the list of its keys
RECURSIVE sorted(_)
sorted(S) ==
    IF S = {} THEN <<>>
    ELSE LET m == CHOOSE x \in S : \A y \in S : Ord(x) <= Ord(y)
         IN <<m>> \o sorted(S \ {m})

RECURSIVE Concat(_)
Concat(ss) == IF ss = <<>> THEN <<>> ELSE Head(ss) \o Concat(Tail(ss))

\* one heading or table of the page: a section title, a message, a nested
\* message (of its outer message), a field table, an enum, an enum value row
\* (of its enum), a service
Entry(kind, name, of) == [kind |-> kind, name |-> name, of |-> of]

\* the keys of the dict _extract_messages returns that start with "name."
nested_messages(pc, name) == IF pc.msgs # <<>> /\ name = pc.msgs[1] THEN Range(pc.nested) ELSE {}

\* _format_message_markdown: heading, field table, then the nested messages
format_message_markdown(pc, name) ==
    <<Entry("message", name, ""), Entry("fields", name, "")>>
    \o Concat([i \in 1..Cardinality(nested_messages(pc, name)) |->
                  <<Entry("nested", sorted(nested_messages(pc, name))[i], name),
                    Entry("fields", sorted(nested_messages(pc, name))[i], name)>>])

\* a page that lists the enums in declaration order
enum_order_declared(pc) == pc.enums

\* the order in which the enum headings are written
enum_order(pc) == sorted(Range(pc.enums))

\* the headings and tables of the page _proto_to_markdown renders for the
\* declarations pc, top to bottom
outline(pc) ==
    (IF pc.msgs # <<>> THEN <<Entry("section", "Messages", "")>> ELSE <<>>)
    \o Concat([i \in 1..Len(pc.msgs) |->
                  format_message_markdown(pc, sorted(Range(pc.msgs))[i])])
    \o (IF pc.enums # <<>> THEN <<Entry("section", "Enums", "")>> ELSE <<>>)
    \o Concat([i \in 1..Len(pc.enums) |->
                  <<Entry("enum", enum_order(pc)[i], "")>>
                  \o [j \in 1..Len(pc.values) |-> Entry("value", pc.values[j], enum_order(pc)[i])]])
    \o (IF pc.services # <<>> THEN <<Entry("section", "Services", "")>> ELSE <<>>)
    \o [i \in 1..Len(pc.services) |-> Entry("service", sorted(Range(pc.services))[i], "")]

\* the rendered page: cid names the source text it was rendered from, which
\* fixes its outline; links holds one link per field type with a dot that resolves
proto_to_markdown(R, f, output_dir) ==
    LET c == ContentOf(fs[f])
        dotted == {t \in c.refs : Len(t) > 1}
        answers == {get_markdown_link(R, t, output_file(f, output_dir), output_dir) : t \in dotted}
    IN [st |-> "page", src |-> f, cid |-> fs[f],
        links |-> {[file |-> a.file, target |-> a.target] : a \in {b \in answers : b.linked}}]

\* returns the output directory after the call and the return value
convert_proto_file(R, O, f, outcome, output_dir) ==
    IF ~Readable(f) \/ outcome = "fail"
    THEN [out |-> O, result |-> NoFile]
    ELSE IF outcome = "write_fail"
    THEN [out |-> Put(O, output_file(f, output_dir), Partial), result |-> NoFile]
    ELSE [out |-> Put(O, output_file(f, output_dir), proto_to_markdown(R, f, output_dir)),
          result |-> output_file(f, output_dir)]

\* a batch loop that gives up at the first file whose conversion fails
RECURSIVE ConvertLoopAbort(_, _, _, _, _, _, _)
ConvertLoopAbort(R, O, files, fault, output_dir, i, generated) ==
    IF i > Len(files) THEN [out |-> O, generated |-> generated]
    ELSE LET r == convert_proto_file(R, O, files[i], OutcomeAt(fault, i), output_dir)
         IN IF r.result = NoFile THEN [out |-> r.out, generated |-> generated]
            ELSE ConvertLoopAbort(R, r.out, files, fault, output_dir, i + 1,
                                  Append(generated, r.result))

RECURSIVE ConvertLoop(_, _, _, _, _, _, _)
ConvertLoop(R, O, files, fault, output_dir, i, generated) ==
    IF i > Len(files) THEN [out |-> O, generated |-> generated]
    ELSE LET r == convert_proto_file(R, O, files[i], OutcomeAt(fault, i), output_dir)
         IN ConvertLoop(R, r.out, files, fault, output_dir, i + 1,
                        IF r.result # NoFile THEN Append(generated, r.result) ELSE generated)

\* returns the resolver and the output directory after the call and the returned list
convert_proto_files(R, O, files, fault, output_dir) ==
    LET R1 == initialize(R, files)
        r == ConvertLoop(R1, O, files, fault, output_dir, 1, <<>>)
    IN [resolver |-> R1, out |-> r.out, generated |-> r.generated]

----------------------------------------------------------------------------
(* ProtoFileCache *)

md5(cid) ==
    CASE cid = "cA" -> "h1"
      [] cid = "cAB" -> "h2"
      [] cid = "cNone" -> "h3"
      [] OTHER -> ""

\* an is_file_changed that only looks whether a hash is stored
is_file_changed_stored(H, f) ==
    IF ~Exists(f) THEN FALSE
    ELSE IF ~Readable(f) THEN TRUE
    ELSE f \notin DOMAIN H

\* an is_file_changed that reports every existing file changed
is_file_changed_always(H, f) == Exists(f)

is_file_changed(H, f) ==
    IF ~Exists(f) THEN FALSE
    ELSE IF ~Readable(f) THEN TRUE
    ELSE f \notin DOMAIN H \/ H[f] # md5(fs[f])

update_file_hash(H, f) == IF Readable(f) THEN Put(H, f, md5(fs[f])) ELSE H

\* the cache file: absent, or the JSON object json.dump wrote, as its set of
\* "path": "hash" members
NoCacheFile == [exists |-> FALSE, entries |-> {}]
json_dump(H) == [exists |-> TRUE, entries |-> {<<k, H[k]>> : k \in DOMAIN H}]
json_load(D) ==
    [k \in {e[1] : e \in D.entries} |-> (CHOOSE e \in D.entries : e[1] = k)[2]]

\* file_hashes of a new ProtoFileCache on the cache file D
load_cache(D) == IF D.exists THEN json_load(D) ELSE EmptyMap

\* a save_cache that leaves the cache file as it is
save_cache_lost(D, H) == D

\* the cache file after save_cache wrote the hashes H over the cache file D
save_cache(D, H) == json_dump(H)

\* the cache file after update_file_hash(f) left the hashes H
saved_after_update(D, H, f) == IF Readable(f) THEN save_cache(D, H) ELSE D

----------------------------------------------------------------------------
(* Navigation *)

DocsDir == <<"docs">>
\* the plugin option output_dir, relative to docs_dir
OutputDirName == "gen"
\* os.path.join(config["docs_dir"], output_dir), the output_dir of the event handler
OutputPathName == "docs/gen"
IndexPage == [dir |-> <<>>, stem |-> "index", ext |-> "md"]

\* a navigation entry {key: page}, a section {key: [entries]}; a bare page
\* string is a leaf with the empty key
Leaf(key, page) == [key |-> key, page |-> page, items |-> <<>>]
Section(key, items) == [key |-> key, page |-> NoFile, items |-> items]

\* _extract_nav_files: every page the navigation names, at any depth
RECURSIVE extract_nav_files(_)
extract_nav_files(items) ==
    UNION {(IF items[i].page # NoFile THEN {items[i].page} ELSE {})
              \cup extract_nav_files(items[i].items) : i \in DOMAIN items}

rel_files(generated_files) == {relpath(f, DocsDir) : f \in Range(generated_files)}

\* an are_files_in_nav that never finds the files
are_files_in_nav_never(N, generated_files) == FALSE

are_files_in_nav(N, generated_files) == rel_files(generated_files) \subseteq extract_nav_files(N)

\* the nested dict nav_tree as a map from the path of keys that leads to a
\* value to that value: DictValue for a dict, the file path for a string
DictValue == [dir |-> <<>>, stem |-> "", ext |-> "dict"]
IsBelow(q, p) == Len(q) > Len(p) /\ SubSeq(q, 1, Len(p)) = p

\* the inner loop of __build_nav_tree__ over the directories d[k..] of one
\* path, current being the dict at the key path cur; when current[component]
\* is a string, current becomes that string and the next statement (an item
\* assignment or an index with a str) raises TypeError
RECURSIVE Descend(_, _, _, _)
Descend(T, cur, d, k) ==
    IF k > Len(d) THEN [failed |-> FALSE, T |-> T, cur |-> cur]
    ELSE LET p == Append(cur, d[k])
             T1 == IF p \in DOMAIN T THEN T ELSE Put(T, p, DictValue)
         IN IF T1[p] # DictValue THEN [failed |-> TRUE, T |-> T1, cur |-> p]
            ELSE Descend(T1, p, d, k + 1)

\* current[name] = file_path: a dict that stood at the key is replaced, and
\* what it held goes with it
SetLeaf(T, cur, f) ==
    LET p == Append(cur, f.stem)
    IN Put([q \in {x \in DOMAIN T : ~IsBelow(x, p)} |-> T[q]], p, f)

\* the outer loop of __build_nav_tree__ from the path at position i on
RECURSIVE BuildLoop(_, _, _)
BuildLoop(T, file_paths, i) ==
    IF i > Len(file_paths) THEN [failed |-> FALSE, T |-> T]
    ELSE LET r == Descend(T, <<>>, file_paths[i].dir, 1)
         IN IF r.failed THEN [failed |-> TRUE, T |-> r.T]
            ELSE BuildLoop(SetLeaf(r.T, r.cur, file_paths[i]), file_paths, i + 1)

\* __convert_nav_tree__ of the dict at the key path p: sorted(nav_tree.items())
RECURSIVE convert_nav_tree(_, _)
convert_nav_tree(T, p) ==
    LET keys == {q[Len(q)] : q \in {x \in DOMAIN T : Len(x) = Len(p) + 1 /\ IsBelow(x, p)}}
        entry(key) ==
            IF T[Append(p, key)] = DictValue
            THEN Section(key, convert_nav_tree(T, Append(p, key)))
            ELSE Leaf(key, T[Append(p, key)])
    IN [i \in 1..Cardinality(keys) |-> entry(sorted(keys)[i])]

\* __build_nav_tree__: failed when it raises, else the list it returns
build_nav_tree(file_paths) ==
    LET r == BuildLoop(EmptyMap, file_paths, 1)
    IN [failed |-> r.failed,
        tree |-> IF r.failed THEN <<>> ELSE convert_nav_tree(r.T, <<>>)]

ApiKeys(output_dir) == {"API Reference", "API", output_dir}
ApiEntries(N, output_dir) == {i \in DOMAIN N : N[i].key \in ApiKeys(output_dir)}
First(S) == CHOOSE i \in S : \A j \in S : i <= j

\* a navigation update that always appends a new entry
put_api_nav_append(N, output_dir, api_nav) == Append(N, Section("API Reference", api_nav))

\* the non-i18n branch: create, replace the first API entry, or append
put_api_nav(N, output_dir, api_nav) ==
    IF N = <<>> THEN <<Section("API Reference", api_nav)>>
    ELSE IF ApiEntries(N, output_dir) # {}
         THEN [N EXCEPT ![First(ApiEntries(N, output_dir))] = Section(@.key, api_nav)]
    ELSE Append(N, Section("API Reference", api_nav))

\* __update_navigation__ without the i18n plugin; an exception out of
\* __build_nav_tree__ ends it before config["nav"] is assigned
update_navigation(N, output_dir, generated_files) ==
    IF generated_files = <<>> THEN N
    ELSE IF are_files_in_nav(N, generated_files) THEN N
    ELSE LET api_nav == build_nav_tree([i \in DOMAIN generated_files |->
                                            relpath(generated_files[i], DocsDir)])
         IN IF api_nav.failed THEN N
            ELSE put_api_nav(N, output_dir, api_nav.tree)

----------------------------------------------------------------------------
(* ProtoExtractor *)

\* A message or service body is the sequence of its lines: a /** */ block, a
\* // line comment, or a field or rpc declaration with its trailing //
\* comment on the same line ("" for none).  A description is the sequence of
\* the comment texts it is joined from.
Block(text) == [kind |-> "block", name |-> "", text |-> text]
LineComment(text) == [kind |-> "line", name |-> "", text |-> text]
Field(name, inline) == [kind |-> "field", name |-> name, text |-> inline]
Rpc(name, inline) == [kind |-> "rpc", name |-> name, text |-> inline]

\* the text of one line as a span of the body holds it
RawText(item) ==
    IF item.kind \in {"block", "line"} THEN <<item.text>>
    ELSE <<item.name>> \o (IF item.text # "" THEN <<item.text>> ELSE <<>>)

\* group(1) of a block pattern match that starts at the block of line i and
\* ends at the block of line j
Span(body, i, j) == Concat([k \in 1..(j - i + 1) |-> RawText(body[i + k - 1])])

\* where the lazy (.*?) of a match starting at line i stops: the first
\* block at or after i that a declaration of this kind follows, 0 for no match
MatchEnd(body, i, kind) ==
    LET J == {j \in i..(Len(body) - 1) : body[j].kind = "block" /\ body[j + 1].kind = kind}
    IN IF J = {} THEN 0 ELSE CHOOSE j \in J : \A k \in J : j <= k

\* re.finditer over BLOCK_COMMENTS_PATTERN (fields) or comment_pattern (rpc)
RECURSIVE block_comments(_, _, _, _)
block_comments(body, i, kind, found) ==
    IF i > Len(body) THEN found
    ELSE IF body[i].kind # "block" THEN block_comments(body, i + 1, kind, found)
    ELSE LET j == MatchEnd(body, i, kind)
         IN IF j = 0 THEN found
            ELSE block_comments(body, j + 2, kind,
                                Put(found, body[j + 1].name, Span(body, i, j)))

NoComment == [name |-> "", value |-> <<>>]

logic_line_comments_fields(item, blocks, comment_lines) ==
    IF comment_lines # <<>> /\ item.name \notin DOMAIN blocks
    THEN [name |-> item.name, value |-> comment_lines]
    ELSE NoComment

logic_line_comments_methods(item, blocks, comment_lines) ==
    IF blocks # EmptyMap /\ item.name \notin DOMAIN blocks
    THEN [name |-> item.name, value |-> comment_lines]
    ELSE NoComment

\* the while loop of __extract_line_comments__ from line i on, comment_lines
\* being the // lines collected directly before it
RECURSIVE LineLoop(_, _, _, _, _)
LineLoop(body, i, comment_lines, blocks, found) ==
    IF i > Len(body) THEN found
    ELSE IF body[i].kind = "line"
    THEN LineLoop(body, i + 1, Append(comment_lines, body[i].text), blocks, found)
    ELSE LET c == IF body[i].kind = "field"
                  THEN logic_line_comments_fields(body[i], blocks, comment_lines)
                  ELSE IF body[i].kind = "rpc"
                  THEN logic_line_comments_methods(body[i], blocks, comment_lines)
                  ELSE NoComment
         IN LineLoop(body, i + 1, <<>>, blocks,
                     IF c.name # "" /\ c.value # <<>> THEN Put(found, c.name, c.value) ELSE found)

extract_line_comments(body, blocks) == LineLoop(body, 1, <<>>, blocks, EmptyMap)

\* the last group of FIELD_PATTERN and METHOD_PATTERN, (?:\s*//\s*(.*))?, for
\* the declaration of line k: \s* also runs over the line break
inline_comment(body, k) ==
    IF body[k].text # "" THEN <<body[k].text>>
    ELSE IF k < Len(body) /\ body[k + 1].kind = "line" THEN <<body[k + 1].text>>
    ELSE <<>>

\* dict.get(name, "")
Get(m, name) == IF name \in DOMAIN m THEN m[name] ELSE <<>>
\* a or b
Or(a, b) == IF a # <<>> THEN a ELSE b

\* the lines of the body that hold a declaration of this kind, in order
Declared(body, kind) == SelectSeq([k \in DOMAIN body |-> k], LAMBDA k : body[k].kind = kind)

extract_fields(body) ==
    LET blocks == block_comments(body, 1, "field", EmptyMap)
        line_comments == extract_line_comments(body, blocks)
        at == Declared(body, "field")
    IN [n \in DOMAIN at |->
           [name |-> body[at[n]].name,
            description |-> Or(Get(blocks, body[at[n]].name),
                               Or(Get(line_comments, body[at[n]].name),
                                  inline_comment(body, at[n])))]]

extract_methods(body) ==
    LET blocks == block_comments(body, 1, "rpc", EmptyMap)
        inline_comments == extract_line_comments(body, blocks)
        comments == inline_comments @@ blocks
        at == Declared(body, "rpc")
    IN [n \in DOMAIN at |->
           [name |-> body[at[n]].name,
            description |-> Or(Get(comments, body[at[n]].name), inline_comment(body, at[n]))]]

----------------------------------------------------------------------------
(* State machine: the plugin's builds and watcher events *)

\* had: the number of import_map entries the resolver held when the call began
NoBatch == [caller |-> "none", files |-> <<>>, fault |-> NoFault, generated |-> <<>>, had |-> 0]
NoRes == [op |-> "none", ip |-> NoFile, from |-> NoFile, t |-> <<>>, cur |-> NoFile,
          mod |-> "", val |-> NoFile, link |-> Literal(<<>>), cell |-> NoCell,
          pc |-> NoContent.decl, outline |-> <<>>,
          file |-> NoFile, changed |-> FALSE, prev |-> EmptyMap,
          best |-> NoDir, conv_best |-> NoDir, file_paths |-> <<>>, failed |-> FALSE, tree |-> <<>>]

NoDoc == [op |-> "none", body |-> <<>>, described |-> <<>>]

\* the threads that call convert_proto_files on the plugin's one converter:
\* the thread that builds and the thread of the watchdog Observer; at is the
\* loop a thread is in, i the position of the file the loop takes next
Threads == {"build", "observer"}
Idle == [at |-> "idle", files |-> <<>>, i |-> 0]
NoThreads == [th \in Threads |-> Idle]

\* run: a build has run; fs: the files as it found them; again, was: run
\* and fs of the build before it
NoBuild == [run |-> FALSE, fs |-> [f \in Files |-> "absent"],
            again |-> FALSE, was |-> [f \in Files |-> "absent"]]

Init ==
    /\ proto_dirs \in RootConfigs
    /\ proto_paths = [dirs |-> proto_dirs, files |-> {FileQA}]
    /\ fs \in {x \in [Files -> FileStates] : \A f \in Files : x[f] \in Allowed(f)}
    /\ out = EmptyMap
    /\ import_resolver = NewResolver
    /\ file_hashes = EmptyMap
    /\ cache_file = NoCacheFile
    /\ recorded = EmptyMap
    /\ nav = <<Leaf("Home", IndexPage)>>
    /\ seen = NoBuild
    /\ last = NoBatch
    /\ doc = NoDoc
    /\ threads = NoThreads
    /\ res = NoRes
    /\ ops = 0

Tick(cap) == ops < cap /\ ops' = ops + 1

\* the environment creates, rewrites, locks or deletes a source file
WriteSource(f, s, cap) ==
    /\ Tick(cap)
    /\ s # fs[f]
    /\ fs' = [fs EXCEPT ![f] = s]
    /\ last' = NoBatch
    /\ res' = NoRes
    /\ UNCHANGED <<threads, doc, proto_dirs, proto_paths, out, import_resolver, file_hashes, cache_file,
                 recorded, nav, seen>>

Batch(caller, O, files, fault) ==
    \E r \in {convert_proto_files(import_resolver, O, files, fault, OutDir)} :
       /\ import_resolver' = r.resolver
       /\ out' = r.out
       /\ last' = [caller |-> caller, files |-> files, fault |-> fault,
                   generated |-> r.generated,
                   had |-> Cardinality(DOMAIN import_resolver.import_map)]

Remove(m, k) == [x \in DOMAIN m \ {k} |-> m[x]]
Perms(S) == {l \in ListsUpTo(S, Cardinality(S)) : Len(l) = Cardinality(S)}

\* a path the plugin watches and walks: under a configured directory, or listed itself
InWatched(f) ==
    \/ \E i \in DOMAIN proto_paths.dirs : Contains(proto_paths.dirs[i], f)
    \/ f \in proto_paths.files

\* the .proto files the walk over proto_paths finds
Discovered == {f \in Files : Exists(f) /\ InWatched(f)}

RECURSIVE UpdateLoop(_, _, _)
UpdateLoop(H, files, i) ==
    IF i > Len(files) THEN H
    ELSE UpdateLoop(update_file_hash(H, files[i]), files, i + 1)

\* the files of the list whose hash update_file_hash stores
Hashed(files) == {f \in Range(files) : Readable(f)}
Record(Rc, files) ==
    [f \in DOMAIN Rc \cup Hashed(files) |-> IF f \in Hashed(files) THEN fs[f] ELSE Rc[f]]

\* the cache, its file and the record of stored contents after
\* update_file_hash ran for each file of the list
UpdateCache(files) ==
    /\ file_hashes' = UpdateLoop(file_hashes, files, 1)
    /\ cache_file' = IF Hashed(files) # {} THEN save_cache(cache_file, file_hashes')
                     ELSE cache_file
    /\ recorded' = Record(recorded, files)

\* on_config: the startup build converts the files the cache reports
\* changed, then updates the navigation with the returned list
StartupBuild(cap) ==
    /\ Tick(cap)
    /\ LET changed == {f \in Discovered : is_file_changed(file_hashes, f)}
       IN \E changed_files \in Perms(changed) :
            /\ UpdateCache(changed_files)
            /\ IF changed_files # <<>>
               THEN /\ \E fault \in Faults(Len(changed_files)) :
                          Batch("startup", out, changed_files, fault)
                    /\ nav' = update_navigation(nav, OutputDirName, last'.generated)
               ELSE /\ last' = [NoBatch EXCEPT !.caller = "startup_skip"]
                    /\ UNCHANGED <<import_resolver, out, nav>>
    /\ seen' = [run |-> TRUE, fs |-> fs, again |-> seen.run, was |-> seen.fs]
    /\ res' = NoRes
    /\ UNCHANGED <<threads, doc, proto_dirs, proto_paths, fs>>

\* ProtoFileEventHandler.__process_proto_file__
process_event(caller, f) ==
    IF ~InWatched(f) \/ ~is_file_changed(file_hashes, f)
    THEN UNCHANGED <<import_resolver, out, last, file_hashes, cache_file, recorded, nav>>
    ELSE /\ \E fault \in Faults(1) : Batch(caller, out, <<f>>, fault)
         /\ UpdateCache(<<f>>)
         /\ nav' = update_navigation(nav, OutputPathName, last'.generated)

OnModified(f) ==
    /\ Tick(MaxOps)
    /\ InWatched(f)
    /\ IF ~is_file_changed(file_hashes, f)
       THEN UNCHANGED <<import_resolver, out, last, file_hashes, cache_file, recorded, nav>>
       ELSE process_event("modified", f)
    /\ res' = NoRes
    /\ UNCHANGED <<threads, doc, proto_dirs, proto_paths, fs, seen>>

OnCreated(f) ==
    /\ Tick(MaxOps)
    /\ InWatched(f)
    /\ process_event("created", f)
    /\ res' = NoRes
    /\ UNCHANGED <<threads, doc, proto_dirs, proto_paths, fs, seen>>

\* the loop of on_deleted that removes the page of the deleted source
RECURSIVE DeleteLoop(_, _, _)
DeleteLoop(O, f, i) ==
    IF i > Len(proto_dirs) THEN O
    ELSE LET md_file == joinmd(OutDir, relpath(f, proto_dirs[i]))
         IN IF Contains(proto_dirs[i], f) /\ md_file \in DOMAIN O
            THEN Remove(O, md_file)
            ELSE DeleteLoop(O, f, i + 1)

OnDeleted(f, cap) ==
    /\ Tick(cap)
    /\ InWatched(f)
    /\ ~Exists(f)
    /\ \E proto_files \in Perms(Discovered) :
         \E fault \in Faults(Len(proto_files)) :
            Batch("deleted", DeleteLoop(out, f, 1), proto_files, fault)
    /\ nav' = update_navigation(nav, OutputPathName, last'.generated)
    /\ res' = [NoRes EXCEPT !.op = "on_deleted", !.file = f]
    /\ UNCHANGED <<threads, doc, proto_dirs, proto_paths, fs, file_hashes, cache_file, recorded, seen>>

Next ==
    \/ \E f \in Files : \E s \in Allowed(f) : WriteSource(f, s, MaxOps)
    \/ StartupBuild(MaxOps)
    \/ \E f \in Files : OnModified(f)
    \/ \E f \in Files : OnCreated(f)
    \/ \E f \in Files : OnDeleted(f, MaxOps)

Spec == Init /\ [][Next]_vars

----------------------------------------------------------------------------
(* State machine: successive builds over the same proto_paths *)

NextRuns ==
    \/ \E f \in Files : \E s \in Allowed(f) : WriteSource(f, s, MaxRuns)
    \/ StartupBuild(MaxRuns)

SpecRuns == Init /\ [][NextRuns]_vars

----------------------------------------------------------------------------
(* State machine: builds and delete events *)

NextDelete ==
    \/ \E f \in Files : \E s \in Allowed(f) : WriteSource(f, s, MaxDeleteOps)
    \/ StartupBuild(MaxDeleteOps)
    \/ \E f \in Files : OnDeleted(f, MaxDeleteOps)

SpecDelete == Init /\ [][NextDelete]_vars

----------------------------------------------------------------------------
(* State machine: a watched file deleted and created again, with builds and
   the events of the watcher, in runs where no render or write fails *)

InitRecreate ==
    /\ Init
    /\ proto_dirs = <<DirP>>
    /\ \A f \in Files \ {FilePA} : fs[f] = "absent"

\* on_created, counted against the bound of these runs
CreatedStep(f) ==
    /\ ops < MaxRecreateOps
    /\ ops' = ops + 1
    /\ InWatched(f)
    /\ process_event("created", f)
    /\ res' = NoRes
    /\ UNCHANGED <<threads, doc, proto_dirs, proto_paths, fs, seen>>

NextRecreate ==
    \/ \E s \in Allowed(FilePA) : WriteSource(FilePA, s, MaxRecreateOps)
    \/ StartupBuild(MaxRecreateOps) /\ last'.fault = NoFault
    \/ CreatedStep(FilePA) /\ last'.fault = NoFault
    \/ OnDeleted(FilePA, MaxRecreateOps) /\ last'.fault = NoFault

SpecRecreate == InitRecreate /\ [][NextRecreate]_vars

----------------------------------------------------------------------------
(* State machine: a converter called directly *)

\* a fault strikes after the source was read: an unreadable file fails at open()
ConvertProtoFiles(files, fault) ==
    /\ Tick(MaxConverterCalls)
    /\ IF fault = NoFault THEN TRUE ELSE Readable(files[fault.at])
    /\ Batch("api", out, files, fault)
    /\ res' = NoRes
    /\ UNCHANGED <<threads, doc, proto_dirs, proto_paths, fs, file_hashes, cache_file, recorded, nav, seen>>

NextConverter ==
    \/ \E f \in Files : \E s \in Allowed(f) : WriteSource(f, s, MaxConverterCalls)
    \/ \E files \in FileLists :
         \E fault \in Faults(Len(files)) : ConvertProtoFiles(files, fault)

SpecConverter == Init /\ [][NextConverter]_vars

----------------------------------------------------------------------------
(* State machine: a resolver called directly *)

ImportPaths ==
    {[dir |-> SubSeq(f.dir, k + 1, Len(f.dir)), stem |-> f.stem, ext |-> f.ext] :
        f \in Files, k \in 0..2}

Initialize(files) ==
    /\ Tick(MaxCalls)
    /\ import_resolver' = initialize(import_resolver, files)
    /\ last' = [NoBatch EXCEPT !.caller = "initialize", !.files = files,
                             !.had = Cardinality(DOMAIN import_resolver.import_map)]
    /\ res' = NoRes
    /\ UNCHANGED <<threads, doc, proto_dirs, proto_paths, fs, out, file_hashes, cache_file, recorded, nav, seen>>

ResolveImport(ip, from) ==
    /\ Tick(MaxCalls)
    /\ res' = [NoRes EXCEPT !.op = "resolve_import", !.ip = ip, !.from = from,
                            !.val = resolve_import(import_resolver, ip, from)]
    /\ UNCHANGED <<threads, doc, proto_dirs, proto_paths, fs, out, import_resolver, file_hashes, cache_file,
                 recorded, nav, last, seen>>

ResolveTypeReference(t) ==
    /\ Tick(MaxCalls)
    /\ res' = [NoRes EXCEPT !.op = "resolve_type_reference", !.t = t,
                            !.val = resolve_type_reference(import_resolver, t)]
    /\ UNCHANGED <<threads, doc, proto_dirs, proto_paths, fs, out, import_resolver, file_hashes, cache_file,
                 recorded, nav, last, seen>>

GetMarkdownLink(t, current_file_path) ==
    /\ Tick(MaxCalls)
    /\ res' = [NoRes EXCEPT !.op = "get_markdown_link", !.t = t, !.cur = current_file_path,
                            !.link = get_markdown_link(import_resolver, t,
                                                       current_file_path, OutDir)]
    /\ UNCHANGED <<threads, doc, proto_dirs, proto_paths, fs, out, import_resolver, file_hashes, cache_file,
                 recorded, nav, last, seen>>

\* _format_message_markdown renders the Type cell of one field row of the page of f
FormatFieldType(mod, t, f) ==
    /\ Tick(MaxCalls)
    /\ res' = [NoRes EXCEPT !.op = "format_field_type", !.mod = mod, !.t = t,
                            !.cur = output_file(f, OutDir),
                            !.cell = format_field_type(import_resolver, mod, t,
                                                       output_file(f, OutDir), OutDir)]
    /\ UNCHANGED <<threads, doc, proto_dirs, proto_paths, fs, out, import_resolver, file_hashes, cache_file,
                 recorded, nav, last, seen>>

NextResolver ==
    \/ \E f \in Files : \E s \in Allowed(f) : WriteSource(f, s, MaxCalls)
    \/ \E files \in FileLists : Initialize(files)
    \/ \E ip \in ImportPaths, from \in {NoFile, FilePXB} : ResolveImport(ip, from)
    \/ \E t \in TypeRefs \cup {<<>>} : ResolveTypeReference(t)
    \/ \E t \in TypeRefs \cup {<<>>} :
         \E f \in Files : GetMarkdownLink(t, output_file(f, OutDir))
    \/ \E mod \in Modifiers \cup {""}, t \in FieldCores :
         FormatFieldType(mod, t, FilePXB)

SpecResolver == Init /\ [][NextResolver]_vars

----------------------------------------------------------------------------
(* State machine: the type cells of the tables a page is rendered with *)

\* _proto_to_markdown renders the method table of a service of the file f
CreateMethodTable(request, f) ==
    /\ Tick(MaxCalls)
    /\ res' = [NoRes EXCEPT !.op = "create_method_table", !.t = request, !.file = f,
                            !.link = method_table(import_resolver, request, f, OutDir)]
    /\ UNCHANGED <<threads, doc, proto_dirs, proto_paths, fs, out, import_resolver, file_hashes, cache_file,
                 recorded, nav, last, seen>>

NextTables ==
    \/ \E files \in FileLists : Initialize(files)
    \/ \E t \in FieldCores : FormatFieldType("", t, FilePXB)
    \/ \E t \in TypeRefs : \E f \in Files : CreateMethodTable(t, f)

SpecTables == Init /\ [][NextTables]_vars

----------------------------------------------------------------------------
(* State machine: two threads running convert_proto_files on the one
   converter and resolver, a step for every statement that touches the
   resolver's maps or the output directory *)

\* a thread enters convert_proto_files and initialize empties the three maps
BeginBatch(th, files) ==
    /\ Tick(MaxCalls)
    /\ threads[th] = Idle
    /\ import_resolver' = [import_resolver EXCEPT !.import_map = EmptyMap,
                                                  !.package_map = EmptyMap,
                                                  !.cross_references = EmptyMap]
    /\ threads' = [threads EXCEPT ![th] = [at |-> "initialize", files |-> files, i |-> 1]]
    /\ UNCHANGED <<doc, proto_dirs, proto_paths, fs, out, file_hashes, cache_file, recorded,
                   nav, seen, last, res>>

\* one turn of the loop of initialize
ProcessProtoFile(th) ==
    LET t == threads[th]
    IN /\ t.at = "initialize"
       /\ t.i <= Len(t.files)
       /\ import_resolver' = process_proto_file(import_resolver, t.files[t.i])
       /\ threads' = [threads EXCEPT ![th].i = t.i + 1]
       /\ UNCHANGED <<doc, proto_dirs, proto_paths, fs, out, file_hashes, cache_file, recorded,
                      nav, seen, last, res, ops>>

\* initialize sets initialized and returns; the conversion loop begins
InitializeDone(th) ==
    LET t == threads[th]
    IN /\ t.at = "initialize"
       /\ t.i > Len(t.files)
       /\ import_resolver' = [import_resolver EXCEPT !.initialized = TRUE]
       /\ threads' = [threads EXCEPT ![th] = [t EXCEPT !.at = "render", !.i = 1]]
       /\ UNCHANGED <<doc, proto_dirs, proto_paths, fs, out, file_hashes, cache_file, recorded,
                      nav, seen, last, res, ops>>

\* one turn of the conversion loop: convert_proto_file renders and writes a page
ConvertProtoFile(th) ==
    LET t == threads[th]
    IN /\ t.at = "render"
       /\ t.i <= Len(t.files)
       /\ out' = convert_proto_file(import_resolver, out, t.files[t.i], "ok", OutDir).out
       /\ threads' = [threads EXCEPT ![th].i = t.i + 1]
       /\ UNCHANGED <<doc, proto_dirs, proto_paths, fs, import_resolver, file_hashes, cache_file,
                      recorded, nav, seen, last, res, ops>>

\* convert_proto_files returns
EndBatch(th) ==
    LET t == threads[th]
    IN /\ t.at = "render"
       /\ t.i > Len(t.files)
       /\ threads' = [threads EXCEPT ![th] = Idle]
       /\ UNCHANGED <<doc, proto_dirs, proto_paths, fs, out, import_resolver, file_hashes,
                      cache_file, recorded, nav, seen, last, res, ops>>

InitThreads == Init /\ proto_dirs = <<DirP, DirPX>>

\* the build hands over the list of the changed files, an event handler one file
NextThreads ==
    \/ \E files \in FileLists \ {<<>>} : BeginBatch("build", files)
    \/ \E f \in Files : BeginBatch("observer", <<f>>)
    \/ \E th \in Threads : ProcessProtoFile(th)
    \/ \E th \in Threads : InitializeDone(th)
    \/ \E th \in Threads : ConvertProtoFile(th)
    \/ \E th \in Threads : EndBatch(th)

SpecThreads == InitThreads /\ [][NextThreads]_vars

----------------------------------------------------------------------------
(* State machine: a file cache called directly *)

IsFileChanged(f) ==
    /\ Tick(MaxCacheOps)
    /\ res' = [NoRes EXCEPT !.op = "is_file_changed", !.file = f,
                            !.changed = is_file_changed(file_hashes, f)]
    /\ UNCHANGED <<threads, doc, proto_dirs, proto_paths, fs, out, import_resolver, file_hashes, cache_file,
                   recorded, nav, last, seen>>

\* changed holds the return value
UpdateFileHash(f) ==
    /\ Tick(MaxCacheOps)
    /\ UpdateCache(<<f>>)
    /\ res' = [NoRes EXCEPT !.op = "update_file_hash", !.file = f, !.changed = Readable(f)]
    /\ UNCHANGED <<threads, doc, proto_dirs, proto_paths, fs, out, import_resolver, nav, last, seen>>

\* ProtoFileCache(cache_file): a new instance replaces the current one;
\* prev holds the hashes of the replaced instance
NewCache ==
    /\ Tick(MaxCacheOps)
    /\ file_hashes' = load_cache(cache_file)
    /\ res' = [NoRes EXCEPT !.op = "new_cache", !.prev = file_hashes]
    /\ UNCHANGED <<threads, doc, proto_dirs, proto_paths, fs, out, import_resolver, cache_file, recorded,
                   nav, last, seen>>

InitCache == Init /\ proto_dirs = <<DirP>>

NextCache ==
    \/ \E f \in Files : \E s \in Allowed(f) : WriteSource(f, s, MaxCacheOps)
    \/ \E f \in Files : IsFileChanged(f)
    \/ \E f \in Files : UpdateFileHash(f)
    \/ NewCache

SpecCache == InitCache /\ [][NextCache]_vars

----------------------------------------------------------------------------
(* State machine: the navigation update called directly *)

GenPage(d, stem) == [dir |-> OutDir \o d, stem |-> stem, ext |-> "md"]
\* the pages the converter can generate, relative to docs_dir
NavPage(d, stem) == relpath(GenPage(d, stem), DocsDir)
OutputPaths == {GenPage(<<>>, "a"), GenPage(<<>>, "b"), GenPage(<<"x">>, "b")}

\* the navigations of the user's configuration
NavConfigs ==
    {<<>>,
     <<Leaf("Home", IndexPage)>>,
     <<Leaf("", IndexPage), Section("gen", <<>>)>>,
     <<Leaf("Home", IndexPage),
       Section("API", <<Leaf("a", NavPage(<<>>, "a"))>>),
       Section("API Reference", <<>>)>>,
     <<Leaf("Home", IndexPage),
       Section("Reference", <<Leaf("A", NavPage(<<>>, "a")), Leaf("B", NavPage(<<>>, "b")),
                              Section("X", <<Leaf("B", NavPage(<<"x">>, "b"))>>)>>),
       Leaf("About", [dir |-> <<>>, stem |-> "about", ext |-> "md"])>>}

InitNav ==
    /\ proto_dirs = <<DirP>>
    /\ proto_paths = [dirs |-> proto_dirs, files |-> {FileQA}]
    /\ fs = [f \in Files |-> "absent"]
    /\ out = EmptyMap
    /\ import_resolver = NewResolver
    /\ file_hashes = EmptyMap
    /\ cache_file = NoCacheFile
    /\ recorded = EmptyMap
    /\ nav \in NavConfigs
    /\ seen = NoBuild
    /\ last = NoBatch
    /\ doc = NoDoc
    /\ threads = NoThreads
    /\ res = NoRes
    /\ ops = 0

\* __update_navigation__(config, output_dir, generated_files)
UpdateNavigation(generated_files) ==
    /\ Tick(MaxCalls)
    /\ nav' = update_navigation(nav, OutputDirName, generated_files)
    /\ last' = [NoBatch EXCEPT !.caller = "update_navigation", !.generated = generated_files]
    /\ res' = NoRes
    /\ UNCHANGED <<threads, doc, proto_dirs, proto_paths, fs, out, import_resolver, file_hashes, cache_file,
                   recorded, seen>>

NextNav == \E generated_files \in ListsUpTo(OutputPaths, MaxBatch) : UpdateNavigation(generated_files)

SpecNav == InitNav /\ [][NextNav]_vars

----------------------------------------------------------------------------
(* State machine: the navigation tree built from one list of paths *)

\* paths relative to docs_dir, among them a file and a directory of one name
TreePaths == {NavPage(<<>>, "a"), NavPage(<<>>, "b"), NavPage(<<"a">>, "b"),
              NavPage(<<"a">>, "a"), NavPage(<<"x">>, "b")}

InitNavTree ==
    /\ proto_dirs = <<DirP>>
    /\ proto_paths = [dirs |-> proto_dirs, files |-> {FileQA}]
    /\ fs = [f \in Files |-> "absent"]
    /\ out = EmptyMap
    /\ import_resolver = NewResolver
    /\ file_hashes = EmptyMap
    /\ cache_file = NoCacheFile
    /\ recorded = EmptyMap
    /\ nav = <<>>
    /\ seen = NoBuild
    /\ last = NoBatch
    /\ doc = NoDoc
    /\ threads = NoThreads
    /\ ops = 0
    /\ \E file_paths \in ListsUpTo(TreePaths, MaxPaths) :
          res = [NoRes EXCEPT !.op = "file_paths", !.file_paths = file_paths]

BuildNavTree ==
    /\ res.op = "file_paths"
    /\ \E r \in {build_nav_tree(res.file_paths)} :
          res' = [res EXCEPT !.op = "build_nav_tree", !.failed = r.failed, !.tree = r.tree]
    /\ ops' = ops + 1
    /\ UNCHANGED <<threads, doc, proto_dirs, proto_paths, fs, out, import_resolver, file_hashes,
                   cache_file, recorded, nav, seen, last>>

NextNavTree == BuildNavTree

SpecNavTree == InitNavTree /\ [][NextNavTree]_vars

----------------------------------------------------------------------------
(* State machine: the renderer applied to one source text *)

\* the source texts rendered: every order of up to MaxDecl of three messages,
\* of two nested messages, two enums, two enum values and two services
ProtoTexts ==
    {Decl(m, n, e, v, sv) :
        m \in ListsUpTo({"B", "A", "C"}, MaxDecl), n \in ListsUpTo({"N2", "N1"}, 2),
        e \in ListsUpTo({"E2", "E1"}, 2), v \in ListsUpTo({"V1", "V0"}, 2),
        sv \in ListsUpTo({"S2", "S1"}, 2)}

InitRender ==
    /\ proto_dirs \in RootConfigs
    /\ proto_paths = [dirs |-> proto_dirs, files |-> {FileQA}]
    /\ fs = [f \in Files |-> "absent"]
    /\ out = EmptyMap
    /\ import_resolver = NewResolver
    /\ file_hashes = EmptyMap
    /\ cache_file = NoCacheFile
    /\ recorded = EmptyMap
    /\ nav = <<Leaf("Home", IndexPage)>>
    /\ seen = NoBuild
    /\ last = NoBatch
    /\ doc = NoDoc
    /\ threads = NoThreads
    /\ \E pc \in ProtoTexts :
          /\ pc.msgs = <<>> => pc.nested = <<>>
          /\ pc.enums = <<>> => pc.values = <<>>
          /\ res = [NoRes EXCEPT !.op = "proto_content", !.pc = pc]
    /\ ops = 0

\* _proto_to_markdown on the source text
ProtoToMarkdown ==
    /\ res.op = "proto_content"
    /\ res' = [res EXCEPT !.op = "proto_to_markdown", !.outline = outline(res.pc)]
    /\ UNCHANGED <<threads, doc, proto_dirs, proto_paths, fs, out, import_resolver, file_hashes, cache_file,
                 recorded, nav, last, ops, seen>>

NextRender == ProtoToMarkdown

SpecRender == InitRender /\ [][NextRender]_vars

----------------------------------------------------------------------------
(* State machine: the extractor applied to one message or service body *)

Comments == {Block("B1"), Block("B2"), LineComment("L1"), LineComment("L2")}
FieldLines == {Field(n, c) : n \in {"a", "b"}, c \in {"", "I1"}}
RpcLines == {Rpc(n, c) : n \in {"Get", "Put"}, c \in {"", "I1"}}

\* declared names are unique within a body
UniqueNames(body) ==
    \A i, j \in DOMAIN body : (i # j /\ body[i].name # "") => body[i].name # body[j].name

Bodies(decls) ==
    {b \in UNION {[1..n -> Comments \cup decls] : n \in 1..MaxLines} : UniqueNames(b)}

InitExtract ==
    /\ proto_dirs = <<DirP>>
    /\ proto_paths = [dirs |-> proto_dirs, files |-> {FileQA}]
    /\ fs = [f \in Files |-> "absent"]
    /\ out = EmptyMap
    /\ import_resolver = NewResolver
    /\ file_hashes = EmptyMap
    /\ cache_file = NoCacheFile
    /\ recorded = EmptyMap
    /\ nav = <<Leaf("Home", IndexPage)>>
    /\ seen = NoBuild
    /\ last = NoBatch
    /\ res = NoRes
    /\ threads = NoThreads
    /\ \/ \E b \in Bodies(FieldLines) : doc = [NoDoc EXCEPT !.op = "message_body", !.body = b]
       \/ \E b \in Bodies(RpcLines) : doc = [NoDoc EXCEPT !.op = "service_body", !.body = b]
    /\ ops = 0

ExtractFields ==
    /\ doc.op = "message_body"
    /\ doc' = [doc EXCEPT !.op = "extract_fields", !.described = extract_fields(doc.body)]
    /\ ops' = ops + 1
    /\ UNCHANGED <<threads, proto_dirs, proto_paths, fs, out, import_resolver, file_hashes,
                   cache_file, recorded, nav, seen, last, res>>

ExtractMethods ==
    /\ doc.op = "service_body"
    /\ doc' = [doc EXCEPT !.op = "extract_methods", !.described = extract_methods(doc.body)]
    /\ ops' = ops + 1
    /\ UNCHANGED <<threads, proto_dirs, proto_paths, fs, out, import_resolver, file_hashes,
                   cache_file, recorded, nav, seen, last, res>>

NextExtract == ExtractFields \/ ExtractMethods

SpecExtract == InitExtract /\ [][NextExtract]_vars

----------------------------------------------------------------------------
(* State machine: the owning root of a file, as the resolver and the
   converter search it in one list of configured roots *)

RootDirs == {DirP, DirPX, DirQ}
\* the configured lists: any order, repetitions allowed, empty included
RootLists == UNION {[1..n -> RootDirs] : n \in 0..MaxRoots}

InitRoots ==
    /\ proto_dirs \in RootLists
    /\ proto_paths = [dirs |-> proto_dirs, files |-> {}]
    /\ fs = [f \in Files |-> "absent"]
    /\ out = EmptyMap
    /\ import_resolver = NewResolver
    /\ file_hashes = EmptyMap
    /\ cache_file = NoCacheFile
    /\ recorded = EmptyMap
    /\ nav = <<Leaf("Home", IndexPage)>>
    /\ seen = NoBuild
    /\ last = NoBatch
    /\ doc = NoDoc
    /\ threads = NoThreads
    /\ res = NoRes
    /\ ops = 0

FindBestProtoDir(f) ==
    /\ Tick(MaxCalls)
    /\ res' = [NoRes EXCEPT !.op = "find_best_proto_dir", !.file = f,
                            !.best = find_best_proto_dir(f),
                            !.conv_best = converter_find_best_proto_dir(f)]
    /\ UNCHANGED <<threads, doc, proto_dirs, proto_paths, fs, out, import_resolver, file_hashes, cache_file,
                   recorded, nav, last, seen>>

NextRoots == \E f \in Files : FindBestProtoDir(f)

SpecRoots == InitRoots /\ [][NextRoots]_vars

----------------------------------------------------------------------------
(* Properties *)

PluginCallers == {"startup", "modified", "created", "deleted"}
Index(files, f) == CHOOSE i \in DOMAIN files : files[i] = f

\* C1: every batch conversion the plugin runs initializes the resolver with
\* the complete current set of source files, so that afterwards the import
\* index covers every current source file and the package index every
\* readable one that declares a package.
C1_ResolverCoversAllSources ==
    last.caller \in PluginCallers =>
        \A f \in Discovered :
            /\ f \in Range(last.files)
            /\ ImportKey(f) \in DOMAIN import_resolver.import_map
            /\ (Readable(f) /\ ContentOf(fs[f]).pkg # <<>>)
                   => ContentOf(fs[f]).pkg \in DOMAIN import_resolver.package_map

----------------------------------------------------------------------------
(* Batch conversion *)

\* position i of batch b meets no failure: its source can be read and no
\* fault hits its render or its write
SucceededIn(b, i) == Readable(b.files[i]) /\ OutcomeAt(b.fault, i) = "ok"
\* position i of batch b opens its output file for writing
TouchesIn(b, i) == Readable(b.files[i]) /\ OutcomeAt(b.fault, i) \in {"ok", "write_fail"}
OkIdx == {i \in DOMAIN last.files : SucceededIn(last, i)}
Rank(i) == Cardinality({j \in OkIdx : j <= i})
PageAt(O, p) == IF p \in DOMAIN O THEN O[p] ELSE [Partial EXCEPT !.st = "none"]
\* no later position of the batch writes to the output path of position i
LastWriterIn(b, i) ==
    \A j \in DOMAIN b.files :
        (j > i /\ TouchesIn(b, j))
            => output_file(b.files[j], OutDir) # output_file(b.files[i], OutDir)

\* C2: convert_proto_files returns exactly the output paths of the files
\* whose conversion succeeded, in input order; a file that fails is only
\* left out, and the files after it are still converted and written.
C2_GeneratedAreTheSucceeded ==
    last.caller = "api" =>
        /\ Len(last.generated) = Cardinality(OkIdx)
        /\ \A i \in OkIdx :
             /\ last.generated[Rank(i)] = output_file(last.files[i], OutDir)
             /\ LastWriterIn(last, i) =>
                    /\ PageAt(out, output_file(last.files[i], OutDir)).st = "page"
                    /\ PageAt(out, output_file(last.files[i], OutDir)).src = last.files[i]

\* a batch whose first file fails and whose second file is converted
C2_Witness ==
    /\ last.caller = "api"
    /\ Len(last.files) = 2
    /\ ~SucceededIn(last, 1)
    /\ SucceededIn(last, 2)
    /\ last.generated = <<output_file(last.files[2], OutDir)>>

\* C3: if the conversion of a file fails, no output file for it is created,
\* truncated or partially written in that pass.
C3_FailedFileUntouched ==
    [][last'.caller = "api" =>
        \A i \in DOMAIN last'.files :
            (/\ ~SucceededIn(last', i)
             /\ \A j \in DOMAIN last'.files :
                    (j # i /\ TouchesIn(last', j))
                        => output_file(last'.files[j], OutDir) # output_file(last'.files[i], OutDir))
                => PageAt(out', output_file(last'.files[i], OutDir))
                       = PageAt(out, output_file(last'.files[i], OutDir))]_vars

\* C4: after a batch, no page generated in it links to the output page of a
\* file that failed to convert in the same batch.
C4_NoLinkToFailedFile ==
    last.caller = "api" =>
        \A i \in OkIdx :
            LET page == PageAt(out, output_file(last.files[i], OutDir))
            IN (page.st = "page" /\ page.src = last.files[i]) =>
                   \A lk \in page.links :
                       \A j \in DOMAIN last.files \ OkIdx : lk.file # last.files[j]

\* the configured roots that contain f and are no shorter than any other that does
OwningRoots(f) ==
    {d \in Range(proto_dirs) :
        /\ Contains(d, f)
        /\ \A e \in Range(proto_dirs) : Contains(e, f) => Len(e) <= Len(d)}

ExpectedOutput(f) ==
    IF OwningRoots(f) = {} THEN [dir |-> OutDir, stem |-> f.stem, ext |-> "md"]
    ELSE LET d == CHOOSE d \in OwningRoots(f) : TRUE
         IN [dir |-> OutDir \o SubSeq(f.dir, Len(d) + 1, Len(f.dir)),
             stem |-> f.stem, ext |-> "md"]

\* C10: the output path of a converted file is its path relative to its
\* owning root, extension replaced by md, under the output directory; a
\* file no root contains goes to basename.md directly under it.
C10_OutputNaming ==
    last.caller = "api" =>
        \A i \in OkIdx :
            /\ last.generated[Rank(i)] = ExpectedOutput(last.files[i])
            /\ ExpectedOutput(last.files[i]) \in DOMAIN out

\* one batch converts a file below its root's top directory and a file outside every root
C10_Witness ==
    /\ last.caller = "api"
    /\ \E i, j \in OkIdx :
         /\ OwningRoots(last.files[i]) = {}
         /\ ExpectedOutput(last.files[i]) \in Range(last.generated)
         /\ OwningRoots(last.files[j]) # {}
         /\ Len(ExpectedOutput(last.files[j]).dir) > Len(OutDir)
         /\ ExpectedOutput(last.files[j]) \in Range(last.generated)

----------------------------------------------------------------------------
(* Resolver *)

IsQuery == res.op # "none"

\* C5: until initialize has completed once, resolve_import and
\* resolve_type_reference return the not-found value for every argument and
\* get_markdown_link returns the unlinked literal type name.
C5_FailClosedBeforeInitialize ==
    (~import_resolver.initialized /\ IsQuery) =>
        /\ res.op \in {"resolve_import", "resolve_type_reference"} => res.val = NoFile
        /\ res.op = "get_markdown_link" => res.link = Literal(res.t)

\* an uninitialized resolver is asked for an import that exists below a configured root
C5_Witness ==
    /\ ~import_resolver.initialized
    /\ res.op = "resolve_import"
    /\ \E i \in DOMAIN proto_dirs : JoinExists(proto_dirs[i], res.ip)
    /\ res.val = NoFile

PkgOf(f) == ContentOf(fs[f]).pkg
Declares(f) == Readable(f) /\ PkgOf(f) # <<>>
\* positions of the list after which no position has the same key
LastWith(files, Key(_), Holds(_)) ==
    {i \in DOMAIN files :
        /\ Holds(files[i])
        /\ \A j \in DOMAIN files : (j > i /\ Holds(files[j])) => Key(files[j]) # Key(files[i])}
Always(f) == TRUE

\* C6: after initialize(F) the three indices are what F, the file contents
\* and the roots determine, whatever the resolver held before: every key
\* comes from a file of F and maps to the last file of F that yields it.
C6_IndicesFromScratch ==
    last.caller = "initialize" =>
        /\ import_resolver.initialized
        /\ DOMAIN import_resolver.import_map = {ImportKey(f) : f \in Range(last.files)}
        /\ \A i \in LastWith(last.files, ImportKey, Always) :
               import_resolver.import_map[ImportKey(last.files[i])] = last.files[i]
        /\ DOMAIN import_resolver.package_map
               = {PkgOf(f) : f \in {g \in Range(last.files) : Declares(g)}}
        /\ \A i \in LastWith(last.files, PkgOf, Declares) :
               import_resolver.package_map[PkgOf(last.files[i])] = last.files[i]
        /\ DOMAIN import_resolver.cross_references
               = UNION {{Append(PkgOf(f), n) : n \in DefinedNames(ContentOf(fs[f]))} :
                            f \in {g \in Range(last.files) : Declares(g)}}
        /\ \A k \in DOMAIN import_resolver.cross_references :
               \E i \in DOMAIN last.files :
                   /\ import_resolver.cross_references[k] = last.files[i]
                   /\ Declares(last.files[i])
                   /\ \E n \in DefinedNames(ContentOf(fs[last.files[i]])) :
                          k = Append(PkgOf(last.files[i]), n)
                   /\ \A j \in DOMAIN last.files :
                          (j > i /\ Declares(last.files[j]))
                              => k \notin {Append(PkgOf(last.files[j]), n) :
                                              n \in DefinedNames(ContentOf(fs[last.files[j]]))}

\* initialize ran on a resolver that held more entries than the new file list yields
C6_Witness ==
    /\ last.caller = "initialize"
    /\ last.had > Cardinality(DOMAIN import_resolver.import_map)
    /\ last.files # <<>>

\* C7 as stated: resolve_import with the import key of an indexed file
\* returns that file's own path.
C7_RoundTripOwnPath ==
    (res.op = "resolve_import" /\ last.caller = "initialize") =>
        \A f \in Range(last.files) : res.ip = ImportKey(f) => res.val = f

\* C7: resolve_import with the import key of an indexed file returns the last
\* file of the supplied list that has this import key, which is the file
\* itself whenever no later file of the list has the same key.
C7_RoundTripLastWithKey ==
    (res.op = "resolve_import" /\ last.caller = "initialize") =>
        \A i \in LastWith(last.files, ImportKey, Always) :
            res.ip = ImportKey(last.files[i]) => res.val = last.files[i]

\* the key of a file that is gone from disk still resolves to it; and two
\* indexed files share the queried key
C7_Witness ==
    /\ res.op = "resolve_import"
    /\ last.caller = "initialize"
    /\ Len(last.files) = 2
    /\ ImportKey(last.files[1]) = ImportKey(last.files[2])
    /\ res.ip = ImportKey(last.files[2])
    /\ ~Exists(last.files[2])
    /\ res.val = last.files[2]

PrefixesIn(t) ==
    {k \in 1..(Len(t) - 1) : SubSeq(t, 1, k) \in DOMAIN import_resolver.package_map}
Longest(S) == CHOOSE k \in S : \A m \in S : m <= k

\* C8: resolve_type_reference returns the cross-reference entry on an exact
\* match; otherwise, for a dotted name, the file of the longest dotted prefix
\* that is a declared package; a name with no dot never resolves.
C8_LongestPrefixWins ==
    (res.op = "resolve_type_reference" /\ import_resolver.initialized) =>
        res.val = IF Len(res.t) <= 1 THEN NoFile
                  ELSE IF res.t \in DOMAIN import_resolver.cross_references
                       THEN import_resolver.cross_references[res.t]
                  ELSE IF PrefixesIn(res.t) = {} THEN NoFile
                  ELSE import_resolver.package_map[SubSeq(res.t, 1, Longest(PrefixesIn(res.t)))]

TopLevelNames(c) == c.msgs \cup c.enums \cup c.services

\* C9: after initialize the cross-reference map has a key package.Name
\* exactly for the messages, enums and services declared at the top level of
\* an indexed file that declares a package; nested names are not registered.
C9_OnlyTopLevelNames ==
    last.caller = "initialize" =>
        DOMAIN import_resolver.cross_references
            = UNION {{Append(PkgOf(f), n) : n \in TopLevelNames(ContentOf(fs[f]))} :
                         f \in {g \in Range(last.files) : Declares(g)}}

----------------------------------------------------------------------------
(* Links *)

\* where a relative link found on the page cur leads: normpath(join(dirname(cur), rel))
ResolveLink(cur, rel) ==
    [dir |-> SubSeq(cur.dir, 1, Len(cur.dir) - rel.ups) \o rel.dir,
     stem |-> rel.stem, ext |-> rel.ext]

\* C11: for a type reference that resolves to a source file,
\* get_markdown_link returns a link whose visible text is the last dotted
\* component and whose target, followed from the directory of the current
\* output file, is the output path of the resolved file.
C11_LinkToResolvedType ==
    (/\ res.op = "get_markdown_link"
     /\ import_resolver.initialized
     /\ resolve_type_reference(import_resolver, res.t) # NoFile) =>
        /\ res.link.linked
        /\ res.link.text = <<res.t[Len(res.t)]>>
        /\ ResolveLink(res.cur, res.link.rel)
               = ExpectedOutput(resolve_type_reference(import_resolver, res.t))

\* C12: a field type with a modifier whose core type is a dotted name that
\* resolves is rendered as the modifier followed by a link whose visible
\* text is the simple type name; a field type whose core type has no dot is
\* rendered as literal code text, never as a link.
C12_ModifierKeptCoreLinked ==
    (res.op = "format_field_type" /\ import_resolver.initialized) =>
        /\ res.cell.mod = res.mod
        /\ (/\ res.mod \in Modifiers
            /\ Len(res.t) > 1
            /\ resolve_type_reference(import_resolver, res.t) # NoFile) =>
               /\ res.cell.linked
               /\ res.cell.text = <<res.t[Len(res.t)]>>
        /\ Len(res.t) = 1 =>
               /\ ~res.cell.linked
               /\ res.cell.code
               /\ res.cell.text = res.t

----------------------------------------------------------------------------
(* Page layout *)

Rendered == res.op = "proto_to_markdown"
EntryNames(entries) == [i \in DOMAIN entries |-> entries[i].name]
IsMessage(e) == e.kind = "message"
IsEnum(e) == e.kind = "enum"
IsService(e) == e.kind = "service"
Ascending(names) == \A i, j \in DOMAIN names : i < j => Ord(names[i]) < Ord(names[j])
\* the positions of the outline that hold an entry of this kind, name and owner
At(kind, name, of) ==
    {k \in DOMAIN res.outline : res.outline[k] = Entry(kind, name, of)}

\* C13: the top-level messages appear on the page in the order in which the
\* source declares them.
C13_MessagesInDeclarationOrder ==
    Rendered => EntryNames(SelectSeq(res.outline, IsMessage)) = res.pc.msgs

\* C14: the enums and the services appear sorted ascending by name; the
\* nested messages of a message appear sorted by name after the field table
\* of their outer message and before the next message; the value rows of an
\* enum keep the declaration order.
C14_NamesSortedValuesDeclared ==
    Rendered =>
        /\ Ascending(EntryNames(SelectSeq(res.outline, IsEnum)))
        /\ Range(EntryNames(SelectSeq(res.outline, IsEnum))) = Range(res.pc.enums)
        /\ Ascending(EntryNames(SelectSeq(res.outline, IsService)))
        /\ Range(EntryNames(SelectSeq(res.outline, IsService))) = Range(res.pc.services)
        /\ \A e \in Range(res.pc.enums) :
               EntryNames(SelectSeq(res.outline,
                                    LAMBDA x : x.kind = "value" /\ x.of = e)) = res.pc.values
        /\ \A m \in Range(res.pc.msgs) :
               LET nest == SelectSeq(res.outline, LAMBDA x : x.kind = "nested" /\ x.of = m)
               IN /\ Ascending(EntryNames(nest))
                  /\ Range(EntryNames(nest)) = nested_messages(res.pc, m)
                  /\ \A n \in Range(EntryNames(nest)) :
                         \A k \in At("nested", n, m) :
                             /\ \E t \in At("fields", m, "") : t < k
                             /\ \A t \in DOMAIN res.outline :
                                    (IsMessage(res.outline[t]) /\ res.outline[t].name # m)
                                        => (t > k \/ \A h \in At("message", m, "") : t < h)

\* a page for a text that declares enums, services, nested messages and enum
\* values all in descending order
C14_Witness ==
    /\ Rendered
    /\ res.pc.enums = <<"E2", "E1">>
    /\ res.pc.services = <<"S2", "S1">>
    /\ res.pc.nested = <<"N2", "N1">>
    /\ res.pc.values = <<"V1", "V0">>
    /\ Len(res.pc.msgs) = 2
    /\ EntryNames(SelectSeq(res.outline, IsEnum)) = <<"E1", "E2">>

----------------------------------------------------------------------------
(* File cache *)

\* C15: for an existing readable file, is_file_changed answers true exactly
\* when no hash was ever stored for the file or its content differs from the
\* content it had when update_file_hash last stored its hash.
C15_ChangedIffContentDiffers ==
    (res.op = "is_file_changed" /\ Readable(res.file)) =>
        res.changed = (\/ res.file \notin DOMAIN recorded
                       \/ recorded[res.file] # fs[res.file])

\* a file whose hash was stored and whose content was then modified
C15_Witness ==
    /\ res.op = "is_file_changed"
    /\ Readable(res.file)
    /\ res.file \in DOMAIN recorded
    /\ recorded[res.file] # fs[res.file]
    /\ res.changed

----------------------------------------------------------------------------
(* Successive builds *)

IsRun(b) == b.caller \in {"startup", "startup_skip"}
\* f is a readable source of this build that the build before, if any, found readable
InBothRuns(f) == f \in Discovered /\ Readable(f) /\ (seen.run => seen.fs[f] \in ContentIds)
ChangedSinceRun(f) == ~seen.run \/ seen.fs[f] # fs[f]

----------------------------------------------------------------------------
(* Navigation update *)

IsNavUpdate(b) == b.caller = "update_navigation"
\* every generated file is a page of the navigation N, at some depth
AllInNav(N, generated_files) ==
    \A f \in Range(generated_files) : relpath(f, DocsDir) \in extract_nav_files(N)

\* C18: when the list of generated files is empty or every generated file
\* already appears in the navigation, the update leaves the navigation as
\* it is.
C18_CustomNavPreserved ==
    [][(/\ IsNavUpdate(last')
        /\ (last'.generated = <<>> \/ AllInNav(nav, last'.generated))) => nav' = nav]_vars

\* the update is given files that the custom navigation already lists
C18_Witness ==
    /\ IsNavUpdate(last)
    /\ Len(last.generated) = 2
    /\ AllInNav(nav, last.generated)
    /\ \E i \in DOMAIN nav : nav[i].key = "Reference"

ApiCount(N) == Cardinality(ApiEntries(N, OutputDirName))

----------------------------------------------------------------------------
(* Delete events *)

\* C20: a delete event for a source file whose page stands at the path the
\* output naming assigns to it removes that page and the page of no other source, then
\* converts the full current file set again; afterwards the deleted source
\* has no output page and every remaining source that converts has one.
C20_DeleteRemovesItsPage ==
    [][(res'.op = "on_deleted" /\ PageAt(out, ExpectedOutput(res'.file)).src = res'.file) =>
        /\ Range(last'.files) = Discovered
        /\ \A p \in DOMAIN out :
               (out[p].st = "page" /\ out[p].src # res'.file) => p \in DOMAIN out'
        /\ PageAt(out', ExpectedOutput(res'.file)).src # res'.file
        /\ \A i \in DOMAIN last'.files :
               (SucceededIn(last', i) /\ LastWriterIn(last', i)) =>
                   PageAt(out', ExpectedOutput(last'.files[i])).src = last'.files[i]]_vars

----------------------------------------------------------------------------
(* Descriptions *)

\* the // line comments directly before line k, in order
RECURSIVE PrecedingLines(_, _)
PrecedingLines(body, k) ==
    IF k > 1 /\ body[k - 1].kind = "line"
    THEN Append(PrecedingLines(body, k - 1), body[k - 1].text)
    ELSE <<>>

\* the description by strict precedence: the block directly before the
\* declaration, else the line comments directly before it, else its own
\* trailing comment, else none
ExpectedDescription(body, k) ==
    IF k > 1 /\ body[k - 1].kind = "block" THEN <<body[k - 1].text>>
    ELSE IF PrecedingLines(body, k) # <<>> THEN PrecedingLines(body, k)
    ELSE IF body[k].text # "" THEN <<body[k].text>>
    ELSE <<>>

\* C21: every field of a message gets the description that strict
\* precedence chooses: the preceding block comment, else the preceding line
\* comments, else the trailing inline comment, else the empty description.
C21_FieldDescriptionPrecedence ==
    doc.op = "extract_fields" =>
        \A n \in DOMAIN doc.described :
            doc.described[n].description
                = ExpectedDescription(doc.body, Declared(doc.body, "field")[n])

\* C22: the description of an rpc method follows the same precedence as
\* that of a field; in particular a method with // line comments directly
\* before it gets those comments as its description, whether or not
\* another method of the service has a block comment.
C22_MethodLineComments ==
    doc.op = "extract_methods" =>
        \A n \in DOMAIN doc.described :
            PrecedingLines(doc.body, Declared(doc.body, "rpc")[n]) # <<>>
                => doc.described[n].description
                       = PrecedingLines(doc.body, Declared(doc.body, "rpc")[n])

----------------------------------------------------------------------------
(* Packages declared by several files *)

\* the positions of the file list whose file declares the package
DeclaringAt(files, pkg) == {i \in DOMAIN files : Declares(files[i]) /\ PkgOf(files[i]) = pkg}
Latest(S) == CHOOSE i \in S : \A j \in S : j <= i

\* C23: initialize completes also when several files of the list declare
\* the same package, and the package map then holds, for every declared
\* package, the declaring file that comes last in the list, and no other
\* package.
C23_LastDeclaringFileWins ==
    last.caller = "initialize" =>
        /\ import_resolver.initialized
        /\ \A pkg \in Packages :
               IF DeclaringAt(last.files, pkg) = {}
               THEN pkg \notin DOMAIN import_resolver.package_map
               ELSE /\ pkg \in DOMAIN import_resolver.package_map
                    /\ import_resolver.package_map[pkg]
                           = last.files[Latest(DeclaringAt(last.files, pkg))]
        /\ DOMAIN import_resolver.package_map \subseteq Packages

\* initialize ran on a list in which two files declare the same package
C23_Witness ==
    /\ last.caller = "initialize"
    /\ \E pkg \in Packages :
           /\ Cardinality(DeclaringAt(last.files, pkg)) > 1
           /\ import_resolver.package_map[pkg]
                  = last.files[Latest(DeclaringAt(last.files, pkg))]

\* the positions of the configured roots that contain f, and the longest of them
Containing(f) == {i \in 1..Len(proto_dirs) : Contains(proto_dirs[i], f)}
LongestContaining(f) == {i \in Containing(f) : \A j \in Containing(f) : Len(proto_dirs[j]) <= Len(proto_dirs[i])}
OwningRoot(f) ==
    IF Containing(f) = {} THEN NoDir
    ELSE proto_dirs[CHOOSE i \in LongestContaining(f) : \A j \in LongestContaining(f) : i <= j]

\* C24: the root both searches return for a file is the first, in the
\* configured list, of the longest roots that contain the file, and no root
\* when none contains it; the resolver and the converter return the same.
C24_OwningRoot ==
    res.op = "find_best_proto_dir" =>
        /\ res.best = OwningRoot(res.file)
        /\ res.conv_best = res.best
\* a nested root listed after the root around it, and twice, owns the file
C24_Witness ==
    /\ res.op = "find_best_proto_dir"
    /\ res.file = FilePXB
    /\ proto_dirs = <<DirP, DirPX, DirPX>>
    /\ res.best = DirPX
\* a file outside every configured root
C24_WitnessNone ==
    /\ res.op = "find_best_proto_dir"
    /\ res.file = FileQA
    /\ proto_dirs = <<DirP, DirPX>>
    /\ res.best = NoDir

\* C25: the cell the method table shows for a request type that resolves to
\* a source file is the link a field of that type gets on the same page: it
\* is a link exactly when the field's is, and its target is relative from
\* the directory of the page of the current file.
C25_MethodLinkLikeFieldLink ==
    (res.op = "create_method_table"
     /\ resolve_type_reference(import_resolver, res.t) # NoFile) =>
        LET page == output_file(res.file, OutDir)
            field == format_field_type(import_resolver, "", res.t, page, OutDir)
        IN /\ res.link.linked = field.linked
           /\ res.link.rel = field.rel
           /\ res.link.linked => res.link.rel = relpath_from(res.link.target, dirname(page))

\* C26: no thread is emptying or rebuilding the resolver's maps while
\* another thread is in its conversion loop with a file still to render; a
\* thread itself renders only after its own initialize returned.
C26_NoInitializeDuringRender ==
    \A a, b \in Threads :
        (a # b /\ threads[b].at = "render" /\ threads[b].i <= Len(threads[b].files))
            => threads[a].at # "initialize"

\* C27: whenever the cache holds the hash of the content a source file has
\* now, the page generated from that content stands at the file's output
\* path (for a file that shares its output path with no other file).
C27_UpToDateOnlyIfConverted ==
    \A f \in Files :
        (/\ Readable(f)
         /\ f \in DOMAIN file_hashes
         /\ file_hashes[f] = md5(fs[f])
         /\ \A g \in Files \ {f} : output_file(g, OutDir) # output_file(f, OutDir))
            => /\ output_file(f, OutDir) \in DOMAIN out
               /\ out[output_file(f, OutDir)].src = f
               /\ out[output_file(f, OutDir)].cid = fs[f]

\* C28: when the create event of a readable watched file has been handled
\* and no conversion failed, the page generated from the file's content
\* stands at its output path, also when the file was deleted before and has
\* come back with the content it had.
C28_CreateGeneratesPage ==
    [][CreatedStep(FilePA) /\ Readable(FilePA) =>
          /\ output_file(FilePA, OutDir) \in DOMAIN out'
          /\ out'[output_file(FilePA, OutDir)].src = FilePA
          /\ out'[output_file(FilePA, OutDir)].cid = fs[FilePA]]_vars

\* C29: when get_markdown_link is given a dotted reference that resolves
\* to a source file, it returns a link and the target of the link is the
\* output path convert_proto_file writes the page of that file to, also
\* for a file under no configured root.
C29_LinkTargetIsWrittenPath ==
    (/\ res.op = "get_markdown_link"
     /\ import_resolver.initialized
     /\ Len(res.t) > 1
     /\ resolve_type_reference(import_resolver, res.t) # NoFile) =>
        /\ res.link.linked
        /\ res.link.target = output_file(resolve_type_reference(import_resolver, res.t), OutDir)

----------------------------------------------------------------------------
(* Navigation tree *)

\* how many leaves of the tree name the page f
RECURSIVE LeafCount(_, _, _)
LeafCount(items, i, f) ==
    IF i > Len(items) THEN 0
    ELSE (IF items[i].page = f THEN 1 ELSE 0)
         + LeafCount(items[i].items, 1, f) + LeafCount(items, i + 1, f)

\* the leaf of f, titled by its stem, lies under the sections d[k..]
RECURSIVE PlacedUnder(_, _, _, _)
PlacedUnder(items, d, k, f) ==
    IF k > Len(d) THEN \E i \in DOMAIN items : items[i] = Leaf(f.stem, f)
    ELSE \E i \in DOMAIN items :
            /\ items[i].key = d[k]
            /\ items[i].page = NoFile
            /\ PlacedUnder(items[i].items, d, k + 1, f)

\* the keys of every level ascend
RECURSIVE SortedLevels(_)
SortedLevels(items) ==
    /\ \A i, j \in DOMAIN items : i < j => Ord(items[i].key) < Ord(items[j].key)
    /\ \A i \in DOMAIN items : SortedLevels(items[i].items)

\* C30: building the tree from a list of distinct paths does not fail, and
\* in the tree every path of the list is one leaf, titled by its file name
\* without extension, under the sections of its directories, every level
\* sorted by name.
C30_NavTreeHoldsEveryPath ==
    res.op = "build_nav_tree" =>
        /\ ~res.failed
        /\ \A i \in DOMAIN res.file_paths :
               /\ LeafCount(res.tree, 1, res.file_paths[i]) = 1
               /\ PlacedUnder(res.tree, res.file_paths[i].dir, 1, res.file_paths[i])
        /\ SortedLevels(res.tree)
====
